---------------------------- MODULE Spec2Model ----------------------------
(***************************************************************************)
(* Model of the prediagnostic microservice: the case lifecycle             *)
(* (pendiente -> procesado -> Validado) driven by the FastAPI handlers of  *)
(* src/api/routes.py over the two MongoDB collections prediagnosticos and  *)
(* diagnosticos.                                                           *)
(*                                                                         *)
(* A handler runs atomically between two awaits; every awaited database    *)
(* call is one atomic document operation.  Handlers with several awaits    *)
(* (process_image, save_diagnostic) are split at their awaits and          *)
(* interleave through the request slots of reqs.                           *)
(*                                                                         *)
(* Documents are records whose DOMAIN is the set of keys of the document.  *)
(* Values the code calls methods on carry their Python type in "kind".     *)
(* Probabilities are percentages (0..100).  uuid4 identifiers are modelled *)
(* and the random diagnostic ids as fresh numbers; a timestamp carries its *)
(* Python type only (datetime, or the string made from one).  A handler    *)
(* that only reads answers from the current state and changes nothing; the *)
(* response of the handler that wrote or rejected last is kept in last.    *)
(* model_loads counts the calls of PneumoniaModel.load_model in the        *)
(* process; the model file is assumed to be present.                       *)
(***************************************************************************)
EXTENDS Integers, Sequences, FiniteSets, TLC

(* ----------------------------- bounds ---------------------------------- *)
MaxCases == 2
MaxReviews == 2
NSlots == 2

Slots == 1..NSlots
Users == {"patient-1", "patient-2"}
CaseIdInputs == 1..(MaxCases + 1)
Comentarios == {"123456789", "1234567890"}
Predictions == {<<40, 40, 20>>, <<10, 30, 60>>}

(* uploaded files: a valid 800x600 RGB JPEG, a 30x30 image, bytes that are *)
(* no image.  decodable: Image.open(...).convert(...) does not raise;      *)
(* verifies: Image.verify() does not raise                                 *)
Images ==
  { [decodable |-> TRUE, verifies |-> TRUE, width |-> 800, height |-> 600, mode |-> "RGB"],
    [decodable |-> TRUE, verifies |-> TRUE, width |-> 30, height |-> 30, mode |-> "L"],
    [decodable |-> FALSE, verifies |-> FALSE, width |-> 0, height |-> 0, mode |-> ""] }

(* --------------------------- configuration ----------------------------- *)
CLASS_LABELS == <<"No Pneumonia", "Viral Pneumonia", "Bacterial Pneumonia">>
IMAGE_SIZE == [width |-> 500, height |-> 720]
MinComentarioLength == 10
MinImageSide == 50

HTTP_200_OK == 200
HTTP_400_BAD_REQUEST == 400
HTTP_404_NOT_FOUND == 404
HTTP_422_UNPROCESSABLE == 422
HTTP_500_INTERNAL_SERVER_ERROR == 500
HttpStatuses ==
  {HTTP_200_OK, HTTP_400_BAD_REQUEST, HTTP_404_NOT_FOUND,
   HTTP_422_UNPROCESSABLE, HTTP_500_INTERNAL_SERVER_ERROR}

VARIABLES prediagnosticos, diagnosticos, storage, reqs, last, model_loads

vars == <<prediagnosticos, diagnosticos, storage, reqs, last, model_loads>>

(* ------------------------- typed Python values ------------------------- *)
IntVal(n) == [kind |-> "int", v |-> n]
StrVal(t) == [kind |-> "str", v |-> t]
Datetime(t) == [kind |-> "datetime", v |-> t]
(* datetime.now() / datetime.utcnow() *)
utcnow == Datetime(0)
(* str(x) of a datetime *)
str(x) == StrVal(x.v)
ObjectId(n) == [kind |-> "ObjectId", v |-> n]

(* Python truthiness of a stored value: 0 and "" are falsy *)
Truthy(x) == ~(x.kind = "int" /\ x.v = 0)

(* x.isoformat(): only datetime has the method, str and int raise          *)
(* AttributeError                                                          *)
HasIsoformat(x) == x.kind = "datetime"
isoformat(x) == StrVal(x.v)

(* ------------------------- collection primitives ----------------------- *)
Matches(doc, key, val) == key \in DOMAIN doc /\ doc[key] = val

Indices(coll, key, val) == {i \in 1..Len(coll) : Matches(coll[i], key, val)}

Min(S) == CHOOSE x \in S : \A y \in S : x <= y

(* find_one: the first matching document, or None *)
None == [kind |-> "None"]
find_one(coll, key, val) ==
  IF Indices(coll, key, val) = {} THEN None
  ELSE coll[Min(Indices(coll, key, val))]

(* find: all matching documents in natural order *)
find(coll, key, val) == SelectSeq(coll, LAMBDA d : Matches(d, key, val))

(* $set: keys of upd overwrite or extend the document *)
SetFields(doc, upd) ==
  [k \in (DOMAIN doc) \cup (DOMAIN upd) |->
     IF k \in DOMAIN upd THEN upd[k] ELSE doc[k]]

(* update_one: $set on the first matching document, no-op without match *)
update_one(coll, key, val, upd) ==
  IF Indices(coll, key, val) = {} THEN coll
  ELSE [coll EXCEPT ![Min(Indices(coll, key, val))] = SetFields(@, upd)]

(* insert_one adds a generated _id to a document that has none; the _id    *)
(* values a handler supplies are distinct by construction                  *)
insert_one_UniquePerCase(coll, doc) ==
  IF Indices(coll, "prediagnostico_id", doc.prediagnostico_id) # {} THEN coll
  ELSE IF "_id" \in DOMAIN doc THEN Append(coll, doc)
  ELSE Append(coll, SetFields(doc, [_id |-> ObjectId(Len(coll) + 1)]))
insert_one(coll, doc) ==
  IF "_id" \in DOMAIN doc THEN Append(coll, doc)
  ELSE Append(coll, SetFields(doc, [_id |-> ObjectId(Len(coll) + 1)]))

Init ==
  /\ prediagnosticos = <<>>
  /\ diagnosticos = <<>>
  /\ storage = <<>>
  /\ reqs = [s \in Slots |-> [pc |-> "idle"]]
  /\ last = [op |-> "none"]
  /\ model_loads = 0

Free(s) == reqs[s].pc = "idle"

(* ------------------------- image pipeline ------------------------------ *)
(* Image.open(path).convert("RGB"): raises on bytes that are no image,     *)
(* otherwise yields an RGB image of the same size                          *)
CanOpen(img) == img.decodable
(* convert() returns a new in-memory image, on which verify() is a no-op *)
ConvertRGB(img) == [img EXCEPT !.mode = "RGB", !.verifies = TRUE]

(* validate_image: False when verify() raises, when a side is below 50 or  *)
(* when the mode is not supported                                          *)
validate_image_BothSides(image) ==
  /\ image.verifies
  /\ ~(image.width < MinImageSide /\ image.height < MinImageSide)
  /\ image.mode \in {"RGB", "RGBA", "L", "P"}
validate_image(image) ==
  /\ image.verifies
  /\ ~(image.width < MinImageSide \/ image.height < MinImageSide)
  /\ image.mode \in {"RGB", "RGBA", "L", "P"}

(* predictions.argmax(axis=-1)[0]: lowest index attaining the maximum *)
argmax_Last(p) ==
  CHOOSE i \in DOMAIN p :
    /\ \A j \in DOMAIN p : p[j] <= p[i]
    /\ \A j \in DOMAIN p : p[j] = p[i] => j <= i
argmax(p) ==
  Min({i \in DOMAIN p : \A j \in DOMAIN p : p[j] <= p[i]})

(* PneumoniaModel.predict on the model's output vector *)
predict(predictions) ==
  [predictions |-> predictions,
   predicted_class |-> CLASS_LABELS[argmax(predictions)],
   predicted_class_index |-> argmax(predictions) - 1,
   confidence |-> predictions[argmax(predictions)]]

(* process_image_ai up to the database write: TRUE when nothing raises *)
InferenceSucceeds_NoValidation(img) == CanOpen(img)
InferenceSucceeds(img) == CanOpen(img) /\ validate_image(ConvertRGB(img))

(* PneumoniaPredictor(): the constructor builds a PneumoniaModel and calls *)
(* load_model() on it                                                      *)
PneumoniaPredictor(loads) == loads + 1

(* the load count after process_image_ai: the predictor is constructed     *)
(* once the file has been opened and converted                             *)
LoadsAfterInference(img, loads) ==
  IF CanOpen(img) THEN PneumoniaPredictor(loads) ELSE loads

(* --------------------------- process_image ----------------------------- *)
(* the record written at creation *)
entrada(user_id, prediagnostico_id, ruta) ==
  [user_id |-> user_id,
   prediagnostico_id |-> prediagnostico_id,
   radiografia_ruta |-> ruta,
   resultado_modelo |-> [probabilidad_neumonia |-> 0, etiqueta |-> ""],
   estado |-> "pendiente",
   fecha_procesamiento |-> IntVal(0),
   fecha_subida |-> str(utcnow)]

(* the fields process_image_ai sets after inference *)
datos_actualizados_NoResult(resultado) ==
  [estado |-> "procesado", fecha_procesamiento |-> utcnow]
datos_actualizados_StateOnly(resultado) == [estado |-> "procesado"]
datos_actualizados(resultado) ==
  [resultado_modelo |-> [probabilidad_neumonia |-> resultado.confidence,
                         etiqueta |-> resultado.predicted_class],
   estado |-> "procesado",
   fecha_procesamiento |-> utcnow]

(* POST /process, up to and including create_prediagnostico: the uploaded  *)
(* file is stored and the pending record is inserted                       *)
ProcessImage_Create(s, imagen, user_id) ==
  /\ Free(s)
  /\ Len(prediagnosticos) < MaxCases
  /\ LET prediagnostico_id == Len(prediagnosticos) + 1
         ruta == Len(storage) + 1
         e == entrada(user_id, prediagnostico_id, ruta)
     IN /\ storage' = Append(storage, imagen)
        /\ prediagnosticos' = insert_one(prediagnosticos, e)
        /\ reqs' = [reqs EXCEPT ![s] =
                      [pc |-> "ai", op |-> "process_image", entrada |-> e]]
  /\ UNCHANGED <<diagnosticos, last, model_loads>>

(* POST /process, process_image_ai succeeds: the result is written and the *)
(* request answers 200 with the case id                                    *)
ProcessImage_AI(s, predictions) ==
  /\ reqs[s].pc = "ai"
  /\ InferenceSucceeds(storage[reqs[s].entrada.radiografia_ruta])
  /\ LET e == reqs[s].entrada
     IN /\ prediagnosticos' =
             update_one(prediagnosticos, "prediagnostico_id",
                        e.prediagnostico_id,
                        datos_actualizados(predict(predictions)))
        /\ last' = [op |-> "process_image", status |-> HTTP_200_OK,
                    body |-> [ruta_prediagnostico |-> e.radiografia_ruta,
                              prediagnostico_id |-> e.prediagnostico_id]]
  /\ model_loads' =
       LoadsAfterInference(storage[reqs[s].entrada.radiografia_ruta], model_loads)
  /\ reqs' = [reqs EXCEPT ![s] = [pc |-> "idle"]]
  /\ UNCHANGED <<diagnosticos, storage>>

(* POST /process, process_image_ai raises (Image.open or validation): the  *)
(* request answers 500 and the record is left as created                   *)
ProcessImage_AIFails_ReturnsId(s) ==
  /\ reqs[s].pc = "ai"
  /\ ~InferenceSucceeds(storage[reqs[s].entrada.radiografia_ruta])
  /\ last' = [op |-> "process_image", status |-> HTTP_200_OK,
              body |-> [ruta_prediagnostico |-> reqs[s].entrada.radiografia_ruta,
                        prediagnostico_id |-> reqs[s].entrada.prediagnostico_id]]
  /\ model_loads' =
       LoadsAfterInference(storage[reqs[s].entrada.radiografia_ruta], model_loads)
  /\ reqs' = [reqs EXCEPT ![s] = [pc |-> "idle"]]
  /\ UNCHANGED <<prediagnosticos, diagnosticos, storage>>
ProcessImage_AIFails(s) ==
  /\ reqs[s].pc = "ai"
  /\ ~InferenceSucceeds(storage[reqs[s].entrada.radiografia_ruta])
  /\ last' = [op |-> "process_image",
              status |-> HTTP_500_INTERNAL_SERVER_ERROR,
              body |-> [detail |-> "Ocurrio un problema durante el guardado del prediagnostico"]]
  /\ model_loads' =
       LoadsAfterInference(storage[reqs[s].entrada.radiografia_ruta], model_loads)
  /\ reqs' = [reqs EXCEPT ![s] = [pc |-> "idle"]]
  /\ UNCHANGED <<prediagnosticos, diagnosticos, storage>>

(* --------------------------- save_diagnostic --------------------------- *)
(* DiagnosticRequest: comentario has min_length=10 *)
ValidDiagnosticRequest_OffByOne(diagnostic) ==
  Len(diagnostic.comentario) >= MinComentarioLength - 1
ValidDiagnosticRequest(diagnostic) ==
  Len(diagnostic.comentario) >= MinComentarioLength

(* get_prediagnostico: the stored document with _id turned into a string *)
get_prediagnostico(prediagnostico_id) ==
  LET result == find_one(prediagnosticos, "prediagnostico_id", prediagnostico_id)
  IN IF result = None THEN None
     ELSE [result EXCEPT !._id = StrVal(result._id.v)]

(* Step 1 of save_diagnostic: "if not prediagnostic_case" *)
CaseMissing_Never(prediagnostic_case) == FALSE
CaseMissing(prediagnostic_case) == prediagnostic_case = None

(* Step 2 of save_diagnostic: prediagnostic_case.get("estado", "") *)
current_state(prediagnostic_case) ==
  IF "estado" \in DOMAIN prediagnostic_case THEN prediagnostic_case.estado ELSE ""

(* the state a case must be in to be reviewed *)
ReviewableState_Any(estado) == TRUE
ReviewableState_NotPending(estado) == estado # "pendiente"
ReviewableState_NotValidated(estado) == estado # "Validado"
ReviewableState_Reviewed(estado) == estado \in {"procesado", "Validado"}
ReviewableState(estado) == estado = "procesado"

(* Step 3: the generated id (timestamp and random suffix), distinct from   *)
(* the id of every stored review and of every request in flight: the       *)
(* lowest number not in use                                                *)
DiagnosticIdsInUse ==
  {diagnosticos[i]._id.v : i \in 1..Len(diagnosticos)}
    \cup {reqs[s].diagnostic_document._id.v :
            s \in {r \in Slots : reqs[r].pc \in {"save", "update"}}}

NewDiagnosticId == StrVal(Min((1..MaxReviews) \ DiagnosticIdsInUse))

(* Step 4 of save_diagnostic *)
diagnostic_document(diagnostic_id, prediagnostic_id, diagnostic) ==
  [_id |-> diagnostic_id,
   prediagnostico_id |-> prediagnostic_id,
   aprobacion |-> diagnostic.aprobacion,
   comentarios |-> diagnostic.comentario,
   fecha_revision |-> isoformat(utcnow)]

(* the answer of a save_diagnostic request that is refused *)
Refusal(prediagnostic_id, diagnostic, status, detail) ==
  [op |-> "save_diagnostic", prediagnostic_id |-> prediagnostic_id,
   diagnostic |-> diagnostic, status |-> status, body |-> [detail |-> detail]]

(* the body is rejected by the request model before the handler runs *)
SaveDiagnostic_Invalid(prediagnostic_id, diagnostic) ==
  /\ ~ValidDiagnosticRequest(diagnostic)
  /\ last' = Refusal(prediagnostic_id, diagnostic, HTTP_422_UNPROCESSABLE,
                     "comentario: min_length")
  /\ UNCHANGED <<prediagnosticos, diagnosticos, storage, reqs, model_loads>>

(* Step 1: the case is not found *)
SaveDiagnostic_NotFound(prediagnostic_id, diagnostic) ==
  /\ ValidDiagnosticRequest(diagnostic)
  /\ CaseMissing(get_prediagnostico(prediagnostic_id))
  /\ last' = Refusal(prediagnostic_id, diagnostic, HTTP_404_NOT_FOUND, "not found")
  /\ UNCHANGED <<prediagnosticos, diagnosticos, storage, reqs, model_loads>>

(* Step 2: the case is found in a state that cannot be reviewed *)
SaveDiagnostic_InvalidState(prediagnostic_id, diagnostic) ==
  /\ ValidDiagnosticRequest(diagnostic)
  /\ ~CaseMissing(get_prediagnostico(prediagnostic_id))
  /\ ~ReviewableState(current_state(get_prediagnostico(prediagnostic_id)))
  /\ last' = Refusal(prediagnostic_id, diagnostic, HTTP_400_BAD_REQUEST,
                     current_state(get_prediagnostico(prediagnostic_id)))
  /\ UNCHANGED <<prediagnosticos, diagnosticos, storage, reqs, model_loads>>

(* Steps 1 to 4: the case is found in state procesado, the diagnostic      *)
(* document is built and the handler awaits the insert                     *)
SaveDiagnostic_Check(s, prediagnostic_id, diagnostic) ==
  /\ Free(s)
  /\ Len(diagnosticos) + Cardinality({r \in Slots : reqs[r].pc = "save"}) < MaxReviews
  /\ ValidDiagnosticRequest(diagnostic)
  /\ ~CaseMissing(get_prediagnostico(prediagnostic_id))
  /\ ReviewableState(current_state(get_prediagnostico(prediagnostic_id)))
  /\ reqs' = [reqs EXCEPT ![s] =
       [pc |-> "save", op |-> "save_diagnostic",
        prediagnostic_id |-> prediagnostic_id, diagnostic |-> diagnostic,
        diagnostic_document |->
          diagnostic_document(NewDiagnosticId, prediagnostic_id, diagnostic)]]
  /\ UNCHANGED <<prediagnosticos, diagnosticos, storage, last, model_loads>>

(* Step 5: diagnostic_service.save_diagnostic *)
SaveDiagnostic_Save_StatusFirst(s) ==
  /\ reqs[s].pc = "save"
  /\ reqs' = [reqs EXCEPT ![s].pc = "update"]
  /\ UNCHANGED <<prediagnosticos, diagnosticos, storage, last, model_loads>>
SaveDiagnostic_Save(s) ==
  /\ reqs[s].pc = "save"
  /\ diagnosticos' = insert_one(diagnosticos, reqs[s].diagnostic_document)
  /\ reqs' = [reqs EXCEPT ![s].pc = "update"]
  /\ UNCHANGED <<prediagnosticos, storage, last, model_loads>>

(* the fields update_prediagnostic_status sets *)
status_update_ResetsUpload(new_status) ==
  [estado |-> new_status, fecha_actualizacion |-> isoformat(utcnow),
   fecha_subida |-> utcnow]
status_update(new_status) ==
  [estado |-> new_status, fecha_actualizacion |-> isoformat(utcnow)]

(* Steps 6 and 7: update_prediagnostic_status and the 200 response *)
SaveDiagnostic_Update(s) ==
  /\ reqs[s].pc = "update"
  /\ prediagnosticos' =
       update_one(prediagnosticos, "prediagnostico_id",
                  reqs[s].prediagnostic_id, status_update("Validado"))
  /\ LET d == reqs[s].diagnostic_document
     IN last' = [op |-> "save_diagnostic",
                 prediagnostic_id |-> reqs[s].prediagnostic_id,
                 diagnostic |-> reqs[s].diagnostic,
                 status |-> HTTP_200_OK,
                 body |-> [_id |-> d._id,
                           prediagnostico_id |-> reqs[s].prediagnostic_id,
                           aprobacion |-> reqs[s].diagnostic.aprobacion,
                           comentarios |-> reqs[s].diagnostic.comentario,
                           fecha_revision |-> d.fecha_revision,
                           message |-> "Diagnostic saved successfully"]]
  /\ reqs' = [reqs EXCEPT ![s] = [pc |-> "idle"]]
  /\ UNCHANGED <<diagnosticos, storage, model_loads>>

(* ------------------------------ get_case ------------------------------- *)
(* a date field the handler calls .isoformat() on: present and truthy *)
NeedsIsoformat(doc, key) == key \in DOMAIN doc /\ Truthy(doc[key])

IsoField(doc, key) ==
  IF NeedsIsoformat(doc, key) THEN [doc EXCEPT ![key] = isoformat(doc[key])]
  ELSE doc

(* GET /case/{prediagnostico_id} *)
get_case(prediagnostico_id) ==
  LET case == get_prediagnostico(prediagnostico_id)
  IN IF case = None
     THEN [status |-> HTTP_404_NOT_FOUND, body |-> None]
     ELSE IF \/ (NeedsIsoformat(case, "fecha_procesamiento")
                   /\ ~HasIsoformat(case.fecha_procesamiento))
             \/ (NeedsIsoformat(case, "fecha_subida")
                   /\ ~HasIsoformat(case.fecha_subida))
     THEN [status |-> HTTP_500_INTERNAL_SERVER_ERROR, body |-> None]
     ELSE [status |-> HTTP_200_OK,
           body |-> IsoField(IsoField(case, "fecha_procesamiento"), "fecha_subida")]

GetCase(prediagnostico_id) ==
  /\ get_case(prediagnostico_id).status \in HttpStatuses
  /\ UNCHANGED vars

(* ---------------------------- get_diagnostic --------------------------- *)
(* get_diagnostic_by_case_id: looks the review up by the key "case_id" *)
get_diagnostic_by_case_id(case_id) ==
  LET result == find_one(diagnosticos, "case_id", case_id)
  IN IF result = None THEN None
     ELSE [result EXCEPT !._id = StrVal(result._id.v)]

(* GET /diagnostic/{case_id} *)
get_diagnostic(case_id) ==
  LET diagnostic == get_diagnostic_by_case_id(case_id)
  IN IF diagnostic = None
     THEN [status |-> HTTP_404_NOT_FOUND, body |-> None]
     ELSE IF NeedsIsoformat(diagnostic, "fecha_revision")
               /\ ~HasIsoformat(diagnostic.fecha_revision)
     THEN [status |-> HTTP_500_INTERNAL_SERVER_ERROR, body |-> None]
     ELSE [status |-> HTTP_200_OK, body |-> IsoField(diagnostic, "fecha_revision")]

GetDiagnostic(case_id) ==
  /\ get_diagnostic(case_id).status \in HttpStatuses
  /\ UNCHANGED vars

(* -------------------------- get_processed_cases ------------------------ *)
(* the query filter of get_processed_cases *)
ProcessedFilter_NotPending(doc) == ~Matches(doc, "estado", "pendiente")
ProcessedFilter(doc) == Matches(doc, "estado", "procesado")

(* a list entry raises when fecha_procesamiento is truthy and no datetime *)
FormatRaises(case) ==
  NeedsIsoformat(case, "fecha_procesamiento") /\ ~HasIsoformat(case.fecha_procesamiento)

formatted_case(case) ==
  [id |-> case.prediagnostico_id,
   paciente |-> case.user_id,
   fecha |-> IF NeedsIsoformat(case, "fecha_procesamiento")
             THEN isoformat(case.fecha_procesamiento) ELSE None,
   estado |-> case.estado]

MapSeq(f(_), sq) == [i \in 1..Len(sq) |-> f(sq[i])]

(* GET /cases *)
get_processed_cases_Unreviewed ==
  LET cursor == SelectSeq(prediagnosticos,
                  LAMBDA doc : ProcessedFilter(doc) /\
                    find(diagnosticos, "prediagnostico_id", doc.prediagnostico_id) = <<>>)
  IN [status |-> HTTP_200_OK, body |-> MapSeq(formatted_case, cursor)]
get_processed_cases ==
  LET cursor == SelectSeq(prediagnosticos, ProcessedFilter)
  IN IF \E i \in 1..Len(cursor) : FormatRaises(cursor[i])
     THEN [status |-> HTTP_500_INTERNAL_SERVER_ERROR, body |-> None]
     ELSE [status |-> HTTP_200_OK, body |-> MapSeq(formatted_case, cursor)]

GetProcessedCases ==
  /\ get_processed_cases.status \in HttpStatuses
  /\ UNCHANGED vars

(* --------------------------- get_cases_by_user ------------------------- *)
(* doc.get(key): the value, or None *)
Get(doc, key) == IF key \in DOMAIN doc THEN doc[key] ELSE None

TruthyOrNone(x) == x # None /\ Truthy(x)

(* the "fecha" expression of get_cases_by_user: the condition looks at     *)
(* both dates, the value is fecha_procesamiento whenever the key exists    *)
FechaCondition(doc) ==
  TruthyOrNone(Get(doc, "fecha_procesamiento")) \/ TruthyOrNone(Get(doc, "fecha_subida"))

FechaValue(doc) ==
  IF "fecha_procesamiento" \in DOMAIN doc THEN doc.fecha_procesamiento
  ELSE Get(doc, "fecha_subida")

SummaryRaises(doc) == FechaCondition(doc) /\ ~HasIsoformat(FechaValue(doc))

case_summary(doc) ==
  [prediagnostico_id |-> Get(doc, "prediagnostico_id"),
   paciente_nombre |-> IF "paciente_nombre" \in DOMAIN doc THEN doc.paciente_nombre ELSE "",
   fecha |-> IF FechaCondition(doc) THEN isoformat(FechaValue(doc)) ELSE StrVal(""),
   estado |-> IF "estado" \in DOMAIN doc THEN doc.estado ELSE "",
   diagnostico_ia |-> IF "resultado_modelo" \in DOMAIN doc
                      THEN doc.resultado_modelo.etiqueta ELSE "",
   probabilidad |-> IF "resultado_modelo" \in DOMAIN doc
                    THEN IntVal(doc.resultado_modelo.probabilidad_neumonia) ELSE None]

(* GET /cases/{user_id} *)
get_cases_by_user(user_id) ==
  LET cursor == find(prediagnosticos, "user_id", user_id)
  IN IF \E i \in 1..Len(cursor) : SummaryRaises(cursor[i])
     THEN [status |-> HTTP_500_INTERNAL_SERVER_ERROR, body |-> None]
     ELSE [status |-> HTTP_200_OK, body |-> MapSeq(case_summary, cursor)]

GetCasesByUser(user_id) ==
  /\ get_cases_by_user(user_id).status \in HttpStatuses
  /\ UNCHANGED vars

(* ----------------------------- specification --------------------------- *)
DiagnosticRequests == [aprobacion : BOOLEAN, comentario : Comentarios]

Next ==
  \/ \E s \in Slots, imagen \in Images, user_id \in Users :
       ProcessImage_Create(s, imagen, user_id)
  \/ \E s \in Slots, predictions \in Predictions : ProcessImage_AI(s, predictions)
  \/ \E s \in Slots : ProcessImage_AIFails(s)
  \/ \E id \in CaseIdInputs, d \in DiagnosticRequests :
       SaveDiagnostic_Invalid(id, d)
  \/ \E id \in CaseIdInputs, d \in DiagnosticRequests :
       SaveDiagnostic_NotFound(id, d)
  \/ \E id \in CaseIdInputs, d \in DiagnosticRequests :
       SaveDiagnostic_InvalidState(id, d)
  \/ \E s \in Slots, id \in CaseIdInputs, d \in DiagnosticRequests :
       SaveDiagnostic_Check(s, id, d)
  \/ \E s \in Slots : SaveDiagnostic_Save(s)
  \/ \E s \in Slots : SaveDiagnostic_Update(s)
  \/ \E id \in CaseIdInputs : GetCase(id)
  \/ \E id \in CaseIdInputs : GetDiagnostic(id)
  \/ GetProcessedCases
  \/ \E user_id \in Users : GetCasesByUser(user_id)

Spec == Init /\ [][Next]_vars

(* ------------------------ storage faults ------------------------------- *)
(* A database call of save_diagnostic raises (connectivity or driver       *)
(* fault).  The services log and re-raise, the handler's "except           *)
(* Exception" answers 500; nothing is retried or undone.                   *)
StorageFault(prediagnostic_id, diagnostic) ==
  Refusal(prediagnostic_id, diagnostic, HTTP_500_INTERNAL_SERVER_ERROR,
          "Internal server error while saving diagnostic")

(* Step 5 raises: the review is not stored, step 6 is not reached *)
SaveDiagnostic_SaveFails_Continues(s) ==
  /\ reqs[s].pc = "save"
  /\ reqs' = [reqs EXCEPT ![s].pc = "update"]
  /\ UNCHANGED <<prediagnosticos, diagnosticos, storage, last, model_loads>>
SaveDiagnostic_SaveFails(s) ==
  /\ reqs[s].pc = "save"
  /\ last' = StorageFault(reqs[s].prediagnostic_id, reqs[s].diagnostic)
  /\ reqs' = [reqs EXCEPT ![s] = [pc |-> "idle"]]
  /\ UNCHANGED <<prediagnosticos, diagnosticos, storage, model_loads>>

(* Step 6 raises after step 5 stored the review *)
SaveDiagnostic_UpdateFails_Rollback(s) ==
  /\ reqs[s].pc = "update"
  /\ diagnosticos' =
       SelectSeq(diagnosticos, LAMBDA d : d._id # reqs[s].diagnostic_document._id)
  /\ last' = StorageFault(reqs[s].prediagnostic_id, reqs[s].diagnostic)
  /\ reqs' = [reqs EXCEPT ![s] = [pc |-> "idle"]]
  /\ UNCHANGED <<prediagnosticos, storage, model_loads>>
SaveDiagnostic_UpdateFails(s) ==
  /\ reqs[s].pc = "update"
  /\ last' = StorageFault(reqs[s].prediagnostic_id, reqs[s].diagnostic)
  /\ reqs' = [reqs EXCEPT ![s] = [pc |-> "idle"]]
  /\ UNCHANGED <<prediagnosticos, diagnosticos, storage, model_loads>>

NextFault ==
  \/ Next
  \/ \E s \in Slots : SaveDiagnostic_SaveFails(s)
  \/ \E s \in Slots : SaveDiagnostic_UpdateFails(s)

SpecFault == Init /\ [][NextFault]_vars

(* ------------------------- upload faults ------------------------------- *)
(* process_image requests on their own, interleaved with each other, with *)
(* failures of the first two steps: writing the uploaded file to           *)
(* STORAGE_DIR raises, or create_prediagnostico raises.  Each is answered  *)
(* 500 at once; the file written before a failed insert is left on disk.   *)
ProcessImage_StoreFails ==
  /\ last' = [op |-> "process_image",
              status |-> HTTP_500_INTERNAL_SERVER_ERROR,
              body |-> [detail |-> "No fue posible guardar la imagen"]]
  /\ UNCHANGED <<prediagnosticos, diagnosticos, storage, reqs, model_loads>>

ProcessImage_CreateFails_RunsInference(imagen) ==
  /\ Len(storage) < MaxCases
  /\ storage' = Append(storage, imagen)
  /\ model_loads' = LoadsAfterInference(imagen, model_loads)
  /\ last' = [op |-> "process_image",
              status |-> HTTP_500_INTERNAL_SERVER_ERROR,
              body |-> [detail |-> "Ocurrio un problema durante el guardado del prediagnostico"]]
  /\ UNCHANGED <<prediagnosticos, diagnosticos, reqs>>
ProcessImage_CreateFails(imagen) ==
  /\ Len(storage) < MaxCases
  /\ storage' = Append(storage, imagen)
  /\ last' = [op |-> "process_image",
              status |-> HTTP_500_INTERNAL_SERVER_ERROR,
              body |-> [detail |-> "Ocurrio un problema durante el guardado del prediagnostico"]]
  /\ UNCHANGED <<prediagnosticos, diagnosticos, reqs, model_loads>>

NextUploadFault ==
  \/ \E s \in Slots, imagen \in Images, user_id \in Users :
       ProcessImage_Create(s, imagen, user_id)
  \/ \E s \in Slots, predictions \in Predictions : ProcessImage_AI(s, predictions)
  \/ \E s \in Slots : ProcessImage_AIFails(s)
  \/ ProcessImage_StoreFails
  \/ \E imagen \in Images : ProcessImage_CreateFails(imagen)

SpecUploadFault == Init /\ [][NextUploadFault]_vars

(* ---------------------- reviews one at a time -------------------------- *)
(* The executions in which the save_diagnostic requests for one case do    *)
(* not overlap in time: a request for a case passes steps 1 to 4 only      *)
(* when no other request for that case is between its step 4 and its       *)
(* response.  Everything else interleaves as in Spec.                      *)
InFlight(prediagnostic_id) ==
  {s \in Slots : /\ reqs[s].pc \in {"save", "update"}
                 /\ reqs[s].prediagnostic_id = prediagnostic_id}

SaveDiagnostic_CheckSerial(s, prediagnostic_id, diagnostic) ==
  /\ InFlight(prediagnostic_id) = {}
  /\ SaveDiagnostic_Check(s, prediagnostic_id, diagnostic)

NextSerialReviews ==
  \/ \E s \in Slots, imagen \in Images, user_id \in Users :
       ProcessImage_Create(s, imagen, user_id)
  \/ \E s \in Slots, predictions \in Predictions : ProcessImage_AI(s, predictions)
  \/ \E s \in Slots : ProcessImage_AIFails(s)
  \/ \E id \in CaseIdInputs, d \in DiagnosticRequests :
       SaveDiagnostic_Invalid(id, d)
  \/ \E id \in CaseIdInputs, d \in DiagnosticRequests :
       SaveDiagnostic_NotFound(id, d)
  \/ \E id \in CaseIdInputs, d \in DiagnosticRequests :
       SaveDiagnostic_InvalidState(id, d)
  \/ \E s \in Slots, id \in CaseIdInputs, d \in DiagnosticRequests :
       SaveDiagnostic_CheckSerial(s, id, d)
  \/ \E s \in Slots : SaveDiagnostic_Save(s)
  \/ \E s \in Slots : SaveDiagnostic_Update(s)
  \/ \E id \in CaseIdInputs : GetCase(id)
  \/ \E id \in CaseIdInputs : GetDiagnostic(id)
  \/ GetProcessedCases
  \/ \E user_id \in Users : GetCasesByUser(user_id)

SpecSerialReviews == Init /\ [][NextSerialReviews]_vars

(* ----------------------- seeded test case ------------------------------ *)
(* The service started on a case store that holds the case the endpoint    *)
(* test script inserts directly into MongoDB before it calls the service.  *)
create_test_prediagnostic(test_prediagnostic_id) ==
  [user_id |-> "test_doctor_endpoint",
   prediagnostico_id |-> test_prediagnostic_id,
   radiografia_url |-> "https://example.com/xrays/doctor_test.jpg",
   resultado_modelo |-> [probabilidad_neumonia |-> 85, etiqueta |-> "Viral Pneumonia"],
   estado |-> "Procesado",
   fecha_procesamiento |-> utcnow,
   fecha_subida |-> utcnow]

InitSeeded ==
  /\ prediagnosticos = insert_one(<<>>, create_test_prediagnostic(1))
  /\ diagnosticos = <<>>
  /\ storage = <<>>
  /\ reqs = [s \in Slots |-> [pc |-> "idle"]]
  /\ last = [op |-> "none"]
  /\ model_loads = 0

SpecSeeded == InitSeeded /\ [][Next]_vars

(* ------------------------- predict_from_image -------------------------- *)
(* PneumoniaPredictor.predict_from_image on its own: one predictor has     *)
(* been constructed, storage holds the PIL image handed to it, last holds  *)
(* what the call did (the functions reached, in order) and returned.       *)

(* the images handed to the predictor: sides around the limit of 50, the   *)
(* supported modes and two unsupported ones, intact or not                 *)
Sides == {MinImageSide - 1, MinImageSide, 800}
Modes == {"RGB", "RGBA", "L", "P", "CMYK", "1"}
PredictorImages ==
  [decodable : {TRUE}, verifies : BOOLEAN, width : Sides, height : Sides,
   mode : Modes]

(* the model's output: probabilities in percent, in steps of 20, adding up *)
(* to 100                                                                  *)
Percentages == {0, 20, 40, 60, 80, 100}
ProbVectors ==
  {p \in [1..Len(CLASS_LABELS) -> Percentages] : p[1] + p[2] + p[3] = 100}

(* np.array(image).shape[2], or 1 for a two-dimensional array *)
Channels(mode) ==
  IF mode \in {"L", "P", "1"} THEN 1
  ELSE IF mode = "RGB" THEN 3
  ELSE 4

(* convert_one_channel_to_three_channels raises unless the array has one   *)
(* or three channels                                                       *)
CanConvertChannels(image) == Channels(image.mode) \in {1, 3}
convert_one_channel_to_three_channels(image) ==
  IF Channels(image.mode) = 1 THEN [image EXCEPT !.mode = "RGB", !.verifies = TRUE]
  ELSE image

resize_image(image, size) ==
  [image EXCEPT !.width = size.width, !.height = size.height, !.verifies = TRUE]

(* preprocess_image: the shape of the array handed to the model *)
preprocess_image(image) ==
  LET processed_image ==
        resize_image(convert_one_channel_to_three_channels(image), IMAGE_SIZE)
  IN <<1, processed_image.height, processed_image.width,
       Channels(processed_image.mode)>>

InitPredictor ==
  /\ prediagnosticos = <<>>
  /\ diagnosticos = <<>>
  /\ \E image \in PredictorImages : storage = <<image>>
  /\ reqs = [s \in Slots |-> [pc |-> "idle"]]
  /\ last = [op |-> "none"]
  /\ model_loads = PneumoniaPredictor(0)

Call(outcome, steps) ==
  [op |-> "predict_from_image", image |-> storage[1],
   outcome |-> outcome, steps |-> steps]

(* validate_image returns False: ValueError *)
PredictFromImage_Invalid ==
  /\ ~validate_image(storage[1])
  /\ last' = Call("ValueError", <<"validate_image">>)
  /\ UNCHANGED <<prediagnosticos, diagnosticos, storage, reqs, model_loads>>

(* preprocess_image raises *)
PredictFromImage_PreprocessFails ==
  /\ validate_image(storage[1])
  /\ ~CanConvertChannels(storage[1])
  /\ last' = Call("Exception", <<"validate_image", "preprocess_image">>)
  /\ UNCHANGED <<prediagnosticos, diagnosticos, storage, reqs, model_loads>>

(* the model is run on the preprocessed array *)
PredictFromImage(predictions) ==
  /\ validate_image(storage[1])
  /\ CanConvertChannels(storage[1])
  /\ last' = SetFields(Call("ok", <<"validate_image", "preprocess_image", "predict">>),
                       [image_array |-> preprocess_image(storage[1]),
                        result |-> predict(predictions)])
  /\ UNCHANGED <<prediagnosticos, diagnosticos, storage, reqs, model_loads>>

NextPredictor ==
  \/ PredictFromImage_Invalid
  \/ PredictFromImage_PreprocessFails
  \/ \E predictions \in ProbVectors : PredictFromImage(predictions)

SpecPredictor == InitPredictor /\ [][NextPredictor]_vars

(* ------------------------------- claims -------------------------------- *)
Case(id) == find_one(prediagnosticos, "prediagnostico_id", id)
Exists(id) == Case(id) # None
ReviewsOf(id) == find(diagnosticos, "prediagnostico_id", id)
IsClassLabel(l) == \E i \in DOMAIN CLASS_LABELS : CLASS_LABELS[i] = l
Placeholder == [probabilidad_neumonia |-> 0, etiqueta |-> ""]

(* a step in which a save_diagnostic request for id that passed the        *)
(* request model is handled: it is accepted into a slot or refused         *)
Accepted(id) ==
  \E s \in Slots : /\ reqs[s].pc = "idle"
                   /\ reqs'[s].pc = "save"
                   /\ reqs'[s].prediagnostic_id = id
Refused(id) ==
  /\ last' # last
  /\ last'.op = "save_diagnostic"
  /\ last'.prediagnostic_id = id
  /\ last'.status \in {HTTP_400_BAD_REQUEST, HTTP_404_NOT_FOUND}

LegalMove(a, b) ==
  \/ a = b
  \/ a = "pendiente" /\ b = "procesado"
  \/ a = "procesado" /\ b = "Validado"

(* C1: state monotonicity.  In every step, under every interleaving of     *)
(* process_image and save_diagnostic requests, each stored case stays the  *)
(* same case and its estado is unchanged or moves pendiente -> procesado   *)
(* or procesado -> Validado; a new case starts in pendiente.  So no state  *)
(* regresses, procesado is never skipped and a Validado case stays         *)
(* Validado.                                                               *)
C1_StateMonotonic ==
  [][ /\ Len(prediagnosticos') >= Len(prediagnosticos)
      /\ \A i \in 1..Len(prediagnosticos) :
           /\ prediagnosticos'[i].prediagnostico_id = prediagnosticos[i].prediagnostico_id
           /\ LegalMove(prediagnosticos[i].estado, prediagnosticos'[i].estado)
      /\ \A i \in (Len(prediagnosticos) + 1)..Len(prediagnosticos') :
           prediagnosticos'[i].estado = "pendiente" ]_vars

(* C1 witness: a case is already Validado while a second review of the     *)
(* same case is still about to write its state update                      *)
C1_Witness ==
  \E s \in Slots : /\ reqs[s].pc = "update"
                   /\ Exists(reqs[s].prediagnostic_id)
                   /\ Case(reqs[s].prediagnostic_id).estado = "Validado"

C3_RoundTrip ==
  (last.op = "process_image" /\ last.status = HTTP_200_OK) =>
    LET r == get_case(last.body.prediagnostico_id)
    IN /\ r.status = HTTP_200_OK
       /\ IsClassLabel(r.body.resultado_modelo.etiqueta)
       /\ \/ r.body.estado = "procesado"
          \/ r.body.estado = "Validado" /\ Len(ReviewsOf(last.body.prediagnostico_id)) > 0

(* C4: review precondition.  A save_diagnostic request (one that passed    *)
(* the request model) for an existing case whose estado is not procesado   *)
(* is answered 400 in the step that handles it, and that step writes no    *)
(* review, changes no case and starts no pending write                     *)
C4_ReviewPrecondition ==
  [][ \A id \in CaseIdInputs :
        (Exists(id) /\ Case(id).estado # "procesado" /\ (Accepted(id) \/ Refused(id)))
          => /\ last'.op = "save_diagnostic"
             /\ last'.prediagnostic_id = id
             /\ last'.status = HTTP_400_BAD_REQUEST
             /\ UNCHANGED <<prediagnosticos, diagnosticos, reqs, model_loads>> ]_vars

(* C4 witness: a review of a case still pendiente has just been refused    *)
(* with 400                                                                *)
C4_Witness ==
  /\ last.op = "save_diagnostic"
  /\ last.status = HTTP_400_BAD_REQUEST
  /\ Exists(last.prediagnostic_id)
  /\ Case(last.prediagnostic_id).estado = "pendiente"

(* C5: once save_diagnostic has answered 200, a review with the returned   *)
(* id is stored that carries the request's case id, approval and comment,  *)
(* the response echoes the request, and get_case answers 200 showing the   *)
(* case as Validado                                                        *)
C5_ReviewThenValidated ==
  (last.op = "save_diagnostic" /\ last.status = HTTP_200_OK) =>
    /\ \E i \in 1..Len(diagnosticos) :
         /\ diagnosticos[i]._id = last.body._id
         /\ diagnosticos[i].prediagnostico_id = last.prediagnostic_id
         /\ diagnosticos[i].aprobacion = last.diagnostic.aprobacion
         /\ diagnosticos[i].comentarios = last.diagnostic.comentario
    /\ last.body.aprobacion = last.diagnostic.aprobacion
    /\ last.body.comentarios = last.diagnostic.comentario
    /\ get_case(last.prediagnostic_id).status = HTTP_200_OK
    /\ get_case(last.prediagnostic_id).body.estado = "Validado"

(* C6: a save_diagnostic request (one that passed the request model) for   *)
(* an id with no stored case is answered 404 in the step that handles it,  *)
(* and that step writes to neither collection                              *)
C6_UnknownCaseNotFound ==
  [][ \A id \in CaseIdInputs :
        (~Exists(id) /\ (Accepted(id) \/ Refused(id)))
          => /\ last'.op = "save_diagnostic"
             /\ last'.prediagnostic_id = id
             /\ last'.status = HTTP_404_NOT_FOUND
             /\ UNCHANGED <<prediagnosticos, diagnosticos, reqs, model_loads>> ]_vars

(* C6 witness: cases exist, and a review of an id that is none of them has *)
(* just been answered 404                                                  *)
C6_Witness ==
  /\ last.op = "save_diagnostic"
  /\ last.status = HTTP_404_NOT_FOUND
  /\ ~Exists(last.prediagnostic_id)
  /\ Len(prediagnosticos) > 0

(* C7: a save_diagnostic request whose comment has fewer than 10           *)
(* characters is never accepted, whatever the id and the state of the      *)
(* case: every answer to one is 422, given in a step that changes no case, *)
(* no review and no request in flight; every stored review has a comment   *)
(* of at least 10 characters                                               *)
C7_ShortCommentRejected ==
  [][ /\ \A s \in Slots :
           (reqs[s].pc = "idle" /\ reqs'[s].pc = "save")
             => Len(reqs'[s].diagnostic.comentario) >= 10
      /\ (last' # last /\ last'.op = "save_diagnostic"
            /\ Len(last'.diagnostic.comentario) < 10)
           => /\ last'.status = HTTP_422_UNPROCESSABLE
              /\ UNCHANGED <<prediagnosticos, diagnosticos, reqs, model_loads>>
      /\ \A i \in 1..Len(diagnosticos') : Len(diagnosticos'[i].comentarios) >= 10 ]_vars

(* C7 witness: a short comment on a case in state procesado has just been  *)
(* answered 422                                                            *)
C7_Witness ==
  /\ last.op = "save_diagnostic"
  /\ last.status = HTTP_422_UNPROCESSABLE
  /\ Len(last.diagnostic.comentario) < 10
  /\ Exists(last.prediagnostic_id)
  /\ Case(last.prediagnostic_id).estado = "procesado"

(* C8: get_diagnostic answers 404 for a case id while no review of that    *)
(* case is stored, and once save_diagnostic has answered 200 for a case,   *)
(* get_diagnostic on that case answers 200 with a review of it             *)
C8_ReviewLookup ==
  /\ \A id \in CaseIdInputs :
       Len(ReviewsOf(id)) = 0 => get_diagnostic(id).status = HTTP_404_NOT_FOUND
  /\ (last.op = "save_diagnostic" /\ last.status = HTTP_200_OK) =>
       /\ get_diagnostic(last.prediagnostic_id).status = HTTP_200_OK
       /\ get_diagnostic(last.prediagnostic_id).body.prediagnostico_id = last.prediagnostic_id

(* C9: get_processed_cases answers 200 with exactly one {id, paciente,     *)
(* fecha, estado} entry for each case whose estado is procesado, in stored *)
(* order, and no entry for a pendiente or Validado case                    *)
C9_ProcessedList ==
  LET r == get_processed_cases
      procesados == SelectSeq(prediagnosticos, LAMBDA d : d.estado = "procesado")
  IN /\ r.status = HTTP_200_OK
     /\ Len(r.body) = Len(procesados)
     /\ \A i \in 1..Len(r.body) :
          /\ DOMAIN r.body[i] = {"id", "paciente", "fecha", "estado"}
          /\ r.body[i].id = procesados[i].prediagnostico_id
          /\ r.body[i].paciente = procesados[i].user_id
          /\ r.body[i].fecha = StrVal(procesados[i].fecha_procesamiento.v)
          /\ r.body[i].estado = "procesado"
     /\ \A i \in 1..Len(prediagnosticos) :
          prediagnosticos[i].estado \in {"pendiente", "Validado"}
            => \A j \in 1..Len(r.body) :
                 r.body[j].id # prediagnosticos[i].prediagnostico_id

(* C9 witness: a reviewed (Validado) case has left the list while another  *)
(* case is listed                                                          *)
C9_Witness ==
  /\ \E i \in 1..Len(prediagnosticos) : prediagnosticos[i].estado = "Validado"
  /\ get_processed_cases.status = HTTP_200_OK
  /\ Len(get_processed_cases.body) = 1

(* C10: get_cases_by_user answers 200 for every user with one summary per  *)
(* case of that user, whatever the estado, carrying the stored label and   *)
(* probability                                                             *)
C10_OwnerList ==
  \A u \in Users :
    LET r == get_cases_by_user(u)
        owned == SelectSeq(prediagnosticos, LAMBDA d : d.user_id = u)
    IN /\ r.status = HTTP_200_OK
       /\ Len(r.body) = Len(owned)
       /\ \A i \in 1..Len(owned) :
            /\ r.body[i].prediagnostico_id = owned[i].prediagnostico_id
            /\ r.body[i].estado = owned[i].estado
            /\ r.body[i].diagnostico_ia = owned[i].resultado_modelo.etiqueta
            /\ r.body[i].probabilidad = IntVal(owned[i].resultado_modelo.probabilidad_neumonia)


(* the uploaded file of a stored case, and the files inference cannot      *)
(* handle: bytes that are no image, or an image with a side below 50       *)
ImageOf(doc) == storage[doc.radiografia_ruta]
Unprocessable(img) ==
  ~img.decodable \/ img.width < MinImageSide \/ img.height < MinImageSide

(* C11: when inference fails in process_image the created record is kept   *)
(* as it was created.  In every state a case whose file cannot be          *)
(* processed is pendiente with the placeholder result and is not listed by *)
(* get_processed_cases; and the step in which process_image gives up on    *)
(* such a file leaves the case store unchanged, keeps the record and       *)
(* answers 500 without a prediagnostico_id                                 *)
C11_FailedInferenceLeavesPending ==
  /\ [](\A i \in 1..Len(prediagnosticos) :
          Unprocessable(ImageOf(prediagnosticos[i])) =>
            /\ prediagnosticos[i].estado = "pendiente"
            /\ prediagnosticos[i].resultado_modelo = Placeholder
            /\ get_processed_cases.status = HTTP_200_OK
            /\ \A j \in 1..Len(get_processed_cases.body) :
                 get_processed_cases.body[j].id # prediagnosticos[i].prediagnostico_id)
  /\ [][\A s \in Slots :
          (/\ reqs[s].pc = "ai"
           /\ Unprocessable(storage[reqs[s].entrada.radiografia_ruta])
           /\ reqs'[s].pc = "idle") =>
            /\ prediagnosticos' = prediagnosticos
            /\ Exists(reqs[s].entrada.prediagnostico_id)
            /\ last'.op = "process_image"
            /\ last'.status = HTTP_500_INTERNAL_SERVER_ERROR
            /\ "prediagnostico_id" \notin DOMAIN last'.body]_vars

(* a 30x30 upload was refused with 500 and its record is still stored as   *)
(* pendiente, with no request in flight                                    *)
C11_Witness ==
  /\ last.op = "process_image"
  /\ last.status = HTTP_500_INTERNAL_SERVER_ERROR
  /\ \A s \in Slots : reqs[s].pc = "idle"
  /\ \E i \in 1..Len(prediagnosticos) :
       /\ ImageOf(prediagnosticos[i]).decodable
       /\ ImageOf(prediagnosticos[i]).width < MinImageSide
       /\ prediagnosticos[i].estado = "pendiente"

(* C12: get_case answers 200 with the stored case (same id, same estado)   *)
(* for every id of a stored case and 404 for every other id                *)
C12_GetCase ==
  \A id \in CaseIdInputs :
    IF Exists(id)
    THEN /\ get_case(id).status = HTTP_200_OK
         /\ get_case(id).body.prediagnostico_id = id
         /\ get_case(id).body.estado = Case(id).estado
    ELSE get_case(id).status = HTTP_404_NOT_FOUND

(* C13: nothing between the state check and the writes of save_diagnostic  *)
(* looks at the reviews of the case.  Every request that passed the check  *)
(* inserts its review, whatever is already stored for the case, and every  *)
(* request that inserted its review answers 200 with the id of a stored    *)
(* review; so two requests that both passed the check of one procesado     *)
(* case leave two reviews of it and both report success                    *)
C13_ConcurrentReviewsBothStored ==
  [][\A s \in Slots :
       /\ (reqs[s].pc = "save" /\ reqs'[s].pc = "update") =>
            Len(find(diagnosticos', "prediagnostico_id", reqs[s].prediagnostic_id)) =
              Len(ReviewsOf(reqs[s].prediagnostic_id)) + 1
       /\ (reqs[s].pc = "update" /\ reqs'[s].pc = "idle") =>
            /\ last'.op = "save_diagnostic"
            /\ last'.status = HTTP_200_OK
            /\ last'.body._id = reqs[s].diagnostic_document._id
            /\ Indices(diagnosticos', "_id", last'.body._id) # {}]_vars

(* two reviews reference one case, both requests have completed and the    *)
(* later one was answered 200 with the id of the second review             *)
C13_Witness ==
  /\ \A s \in Slots : reqs[s].pc = "idle"
  /\ \E id \in CaseIdInputs :
       /\ Len(ReviewsOf(id)) = 2
       /\ Case(id).estado = "Validado"
       /\ last.op = "save_diagnostic"
       /\ last.status = HTTP_200_OK
       /\ last.prediagnostic_id = id
       /\ last.body._id = ReviewsOf(id)[2]._id

(* C14: in every step in which save_diagnostic inserts a review, the case  *)
(* the review references exists and is procesado at that moment            *)
C14_ReviewWrittenOnProcessed ==
  [][\A s \in Slots :
       (reqs[s].pc = "save" /\ reqs'[s].pc = "update") =>
         /\ Exists(reqs[s].prediagnostic_id)
         /\ Case(reqs[s].prediagnostic_id).estado = "procesado"]_vars

(* C15 (under SpecFault): when the status update of save_diagnostic fails  *)
(* after the review was stored, the request ends with 500 and is not       *)
(* retried, the step changes neither collection, the review of the request *)
(* stays stored, and the case is still procesado unless a concurrent       *)
(* request stored a review of the same case                                *)
C15_UpdateFailureLeavesReview ==
  [][\A s \in Slots :
       (/\ reqs[s].pc = "update"
        /\ reqs'[s].pc = "idle"
        /\ last'.status # HTTP_200_OK) =>
          /\ last'.op = "save_diagnostic"
          /\ last'.prediagnostic_id = reqs[s].prediagnostic_id
          /\ last'.status = HTTP_500_INTERNAL_SERVER_ERROR
          /\ diagnosticos' = diagnosticos
          /\ prediagnosticos' = prediagnosticos
          /\ Indices(diagnosticos', "_id", reqs[s].diagnostic_document._id) # {}
          /\ (Len(find(diagnosticos', "prediagnostico_id",
                        reqs[s].prediagnostic_id)) = 1 =>
                find_one(prediagnosticos', "prediagnostico_id",
                         reqs[s].prediagnostic_id).estado = "procesado")
          /\ \A r \in Slots :
               reqs'[r].pc # "idle" => reqs'[r] = reqs[r]]_vars

(* a save_diagnostic request was answered 500, no request is in flight,    *)
(* and its case is procesado with one review stored                        *)
C15_Witness ==
  /\ last.op = "save_diagnostic"
  /\ last.status = HTTP_500_INTERNAL_SERVER_ERROR
  /\ \A s \in Slots : reqs[s].pc = "idle"
  /\ Exists(last.prediagnostic_id)
  /\ Case(last.prediagnostic_id).estado = "procesado"
  /\ Len(ReviewsOf(last.prediagnostic_id)) = 1

(* C16: the inference model is loaded at most once in the process, however *)
(* many process_image requests are served                                  *)
C16_ModelLoadedOnce == model_loads <= 1

(* C17: a process_image request whose file is no image or fails image      *)
(* validation is answered with a client-fault status (4xx), not with the   *)
(* 500 used for server faults                                              *)
C17_ImageFaultIsClientFault ==
  [][\A s \in Slots :
       (/\ reqs[s].pc = "ai"
        /\ Unprocessable(storage[reqs[s].entrada.radiografia_ruta])
        /\ reqs'[s].pc = "idle") =>
          /\ last'.op = "process_image"
          /\ last'.status \in {HTTP_400_BAD_REQUEST, HTTP_422_UNPROCESSABLE}]_vars

(* C18 (under SpecPredictor): argmax consistency.  For every probability   *)
(* vector the model returns, the reported index is the lowest index whose  *)
(* probability is the maximum of the vector, the reported label is the     *)
(* configured label at that index and the confidence is the probability at *)
(* that index                                                              *)
C18_ArgmaxConsistency ==
  (last.op = "predict_from_image" /\ last.outcome = "ok") =>
    LET p == last.result.predictions
        k == last.result.predicted_class_index + 1
    IN /\ k \in DOMAIN p
       /\ \A j \in DOMAIN p : p[j] <= p[k]
       /\ \A j \in DOMAIN p : j < k => p[j] < p[k]
       /\ last.result.predicted_class = CLASS_LABELS[k]
       /\ last.result.confidence = p[k]

(* a prediction on a vector whose maximum is attained twice, at the second *)
(* and the third class                                                     *)
C18_Witness ==
  /\ last.op = "predict_from_image"
  /\ last.outcome = "ok"
  /\ last.result.predictions[2] = last.result.predictions[3]
  /\ last.result.predictions[1] < last.result.predictions[2]
  /\ last.result.predicted_class_index = 1

(* C19: the fields written at creation are immutable.  In every step each  *)
(* stored case keeps its position in the store and its prediagnostico_id,  *)
(* user_id, radiografia_ruta and fecha_subida, whichever operation acts    *)
CreationFields == {"prediagnostico_id", "user_id", "radiografia_ruta", "fecha_subida"}

C19_CreationFieldsImmutable ==
  [][/\ Len(prediagnosticos') >= Len(prediagnosticos)
     /\ \A i \in 1..Len(prediagnosticos) :
          \A f \in CreationFields :
            /\ f \in DOMAIN prediagnosticos'[i]
            /\ prediagnosticos'[i][f] = prediagnosticos[i][f]]_vars

(* a case that went through the inference update and the review            *)
(* transition still carries the fields of the record written at creation   *)
C19_Witness ==
  \E i \in 1..Len(prediagnosticos) :
    /\ prediagnosticos[i].estado = "Validado"
    /\ "fecha_actualizacion" \in DOMAIN prediagnosticos[i]
    /\ IsClassLabel(prediagnosticos[i].resultado_modelo.etiqueta)
    /\ \A f \in CreationFields :
         prediagnosticos[i][f] =
           entrada(prediagnosticos[i].user_id, prediagnosticos[i].prediagnostico_id,
                   prediagnosticos[i].radiografia_ruta)[f]

(* the property of an image the specification's validation step names: a   *)
(* side below 50, or a mode other than single-channel, 3-channel,          *)
(* 4-channel and palette                                                   *)
TooSmallOrUnsupported(image) ==
  \/ image.width < 50
  \/ image.height < 50
  \/ image.mode \notin {"L", "RGB", "RGBA", "P"}

(* C20 as stated (under SpecPredictor): predict_from_image rejects an      *)
(* image with ValueError exactly when a side is below 50 or the mode is    *)
(* unsupported, and a rejected image reaches neither preprocessing nor the *)
(* model                                                                   *)
C20_RejectsExactlySmallOrUnsupported ==
  last.op = "predict_from_image" =>
    /\ last.outcome = "ValueError" <=> TooSmallOrUnsupported(last.image)
    /\ last.outcome = "ValueError" => last.steps = <<"validate_image">>

(* C20 amended (under SpecPredictor): predict_from_image rejects an image  *)
(* with ValueError exactly when its integrity check (verify) fails, a side *)
(* is below 50 or the mode is unsupported, and a rejected image reaches    *)
(* neither preprocessing nor the model                                     *)
C20_RejectsExactlyInvalid ==
  last.op = "predict_from_image" =>
    /\ last.outcome = "ValueError" <=>
         (~last.image.verifies \/ TooSmallOrUnsupported(last.image))
    /\ last.outcome = "ValueError" => last.steps = <<"validate_image">>

(* an intact RGB image 49 pixels wide and 800 high was rejected *)
C20_Witness ==
  /\ last.op = "predict_from_image"
  /\ last.outcome = "ValueError"
  /\ last.image.verifies
  /\ last.image.mode = "RGB"
  /\ last.image.width = 49
  /\ last.image.height = 800

(* C21 (under SpecPredictor): every image that passes validation is        *)
(* normalised to a 3-channel array; none is rejected by preprocessing,     *)
(* whether it has one channel, three channels, four channels or a palette  *)
C21_NormalisedToThreeChannels ==
  (last.op = "predict_from_image" /\ last.outcome # "ValueError") =>
    /\ last.outcome = "ok"
    /\ last.image_array[4] = 3

Stalled(doc) ==
  /\ doc.estado = "pendiente"
  /\ \A s \in Slots :
       reqs[s].pc = "ai" => reqs[s].entrada.prediagnostico_id # doc.prediagnostico_id

(* C23: a case whose inference step failed is never changed again.  Every  *)
(* step leaves its record as it is (so it stays pendiente and stays        *)
(* stalled), no save_diagnostic request for it is accepted, a request for  *)
(* it that passed the request model is answered 400, and in every state    *)
(* get_processed_cases does not list it                                    *)
C23_StalledCaseNeverChanges ==
  /\ [][\A i \in 1..Len(prediagnosticos) :
          Stalled(prediagnosticos[i]) =>
            /\ Len(prediagnosticos') >= i
            /\ prediagnosticos'[i] = prediagnosticos[i]
            /\ ~Accepted(prediagnosticos[i].prediagnostico_id)
            /\ (/\ last' # last
                /\ last'.op = "save_diagnostic"
                /\ last'.prediagnostic_id = prediagnosticos[i].prediagnostico_id
                /\ last'.status # HTTP_422_UNPROCESSABLE) =>
                 last'.status = HTTP_400_BAD_REQUEST]_vars
  /\ [](\A i \in 1..Len(prediagnosticos) :
          Stalled(prediagnosticos[i]) =>
            /\ get_processed_cases.status = HTTP_200_OK
            /\ \A j \in 1..Len(get_processed_cases.body) :
                 get_processed_cases.body[j].id # prediagnosticos[i].prediagnostico_id)

(* a review of a stalled case was refused with 400 while another case has  *)
(* been processed                                                          *)
C23_Witness ==
  /\ last.op = "save_diagnostic"
  /\ last.status = HTTP_400_BAD_REQUEST
  /\ Exists(last.prediagnostic_id)
  /\ Stalled(Case(last.prediagnostic_id))
  /\ Len(get_processed_cases.body) = 1

(* C24 (under SpecFault): when the insert of the review fails, the request *)
(* ends at once with 500 without reaching the status update and is not     *)
(* retried, the step changes neither collection, no review with the id of  *)
(* the request is stored, and the case is still procesado unless a         *)
(* concurrent request stored a review of the same case                     *)
C24_SaveFailureWritesNothing ==
  [][\A s \in Slots :
       (reqs[s].pc = "save" /\ reqs'[s].pc # "save" /\ diagnosticos' = diagnosticos) =>
          /\ reqs'[s].pc = "idle"
          /\ last'.op = "save_diagnostic"
          /\ last'.prediagnostic_id = reqs[s].prediagnostic_id
          /\ last'.status = HTTP_500_INTERNAL_SERVER_ERROR
          /\ prediagnosticos' = prediagnosticos
          /\ Indices(diagnosticos', "_id", reqs[s].diagnostic_document._id) = {}
          /\ (Len(find(diagnosticos', "prediagnostico_id",
                       reqs[s].prediagnostic_id)) = 0 =>
                find_one(prediagnosticos', "prediagnostico_id",
                         reqs[s].prediagnostic_id).estado = "procesado")
          /\ \A r \in Slots :
               reqs'[r].pc # "idle" => reqs'[r] = reqs[r]]_vars

(* a save_diagnostic request was answered 500, no request is in flight,    *)
(* and its case is procesado with no review stored                         *)
C24_Witness ==
  /\ last.op = "save_diagnostic"
  /\ last.status = HTTP_500_INTERNAL_SERVER_ERROR
  /\ \A s \in Slots : reqs[s].pc = "idle"
  /\ Exists(last.prediagnostic_id)
  /\ Case(last.prediagnostic_id).estado = "procesado"
  /\ Len(ReviewsOf(last.prediagnostic_id)) = 0

(* C25 (under SpecUploadFault): process_image stores the file, then        *)
(* creates the pending record, then runs inference, then updates the       *)
(* record.  A step that creates a record stores the file it refers to in   *)
(* the same step and starts no inference yet; inference and the update are *)
(* done only by a request whose record is stored.  When storing the file   *)
(* fails nothing is written; when creating the record fails the file is    *)
(* on disk, no record is created and no inference is run (no request       *)
(* proceeds, the model is not loaded); both are answered 500               *)
C25_UploadStepOrder ==
  [][/\ Len(prediagnosticos') > Len(prediagnosticos) =>
          /\ Len(prediagnosticos') = Len(prediagnosticos) + 1
          /\ Len(storage') = Len(storage) + 1
          /\ prediagnosticos'[Len(prediagnosticos')].radiografia_ruta = Len(storage')
          /\ prediagnosticos'[Len(prediagnosticos')].estado = "pendiente"
          /\ model_loads' = model_loads
     /\ \A s \in Slots :
          (reqs[s].pc = "ai" /\ reqs'[s].pc = "idle") =>
            /\ Exists(reqs[s].entrada.prediagnostico_id)
            /\ Case(reqs[s].entrada.prediagnostico_id).estado = "pendiente"
            /\ reqs[s].entrada.radiografia_ruta \in 1..Len(storage)
     /\ (/\ last' # last
         /\ last'.op = "process_image"
         /\ storage' = storage
         /\ reqs' = reqs) =>
            /\ last'.status = HTTP_500_INTERNAL_SERVER_ERROR
            /\ prediagnosticos' = prediagnosticos
            /\ model_loads' = model_loads
     /\ (Len(storage') > Len(storage) /\ prediagnosticos' = prediagnosticos) =>
            /\ last'.op = "process_image"
            /\ last'.status = HTTP_500_INTERNAL_SERVER_ERROR
            /\ reqs' = reqs
            /\ model_loads' = model_loads]_vars

(* a file is on disk without a record (its insert failed and was answered  *)
(* 500) while another upload has been processed                            *)
C25_Witness ==
  /\ Len(storage) > Len(prediagnosticos)
  /\ last.op = "process_image"
  /\ last.status = HTTP_500_INTERNAL_SERVER_ERROR
  /\ \E i \in 1..Len(prediagnosticos) : prediagnosticos[i].estado = "procesado"
  /\ \A s \in Slots : reqs[s].pc = "idle"

(* C26 (under SpecSeeded): a save_diagnostic request that passed the       *)
(* request model, for a stored case whose estado is "Procesado", is        *)
(* answered 200 with _id, prediagnostico_id, aprobacion, comentarios and   *)
(* fecha_revision, the values echoing the request                          *)
C26_CapitalisedStateAccepted ==
  [][(/\ last' # last
      /\ last'.op = "save_diagnostic"
      /\ last'.status # HTTP_422_UNPROCESSABLE
      /\ Exists(last'.prediagnostic_id)
      /\ Case(last'.prediagnostic_id).estado = "Procesado") =>
        /\ last'.status = HTTP_200_OK
        /\ {"_id", "prediagnostico_id", "aprobacion", "comentarios", "fecha_revision"}
             \subseteq DOMAIN last'.body
        /\ last'.body.prediagnostico_id = last'.prediagnostic_id
        /\ last'.body.aprobacion = last'.diagnostic.aprobacion
        /\ last'.body.comentarios = last'.diagnostic.comentario]_vars

(* C27 (under SpecFault): in every reachable state every case in state     *)
(* Validado has at least one review in diagnosticos with its case id, and  *)
(* no step removes or rewrites a stored review                             *)
C27_ValidatedHasReview ==
  /\ [](\A i \in 1..Len(prediagnosticos) :
          prediagnosticos[i].estado = "Validado" =>
            Len(ReviewsOf(prediagnosticos[i].prediagnostico_id)) >= 1)
  /\ [][/\ Len(diagnosticos') >= Len(diagnosticos)
        /\ \A i \in 1..Len(diagnosticos) : diagnosticos'[i] = diagnosticos[i]]_vars

C27_Witness ==
  /\ \A s \in Slots : Free(s)
  /\ \E i \in 1..Len(prediagnosticos) :
       /\ prediagnosticos[i].estado = "Validado"
       /\ Len(ReviewsOf(prediagnosticos[i].prediagnostico_id)) >= 1

(* C28: in every reachable state, whatever requests are in flight, a case  *)
(* in state procesado or Validado carries a label that is one of the       *)
(* configured class labels and a fecha_procesamiento that is no longer the *)
(* placeholder 0 written at creation; the step that moves a case to        *)
(* procesado is the one that writes both                                   *)
C28_ProcessedCarriesResult ==
  /\ [](\A i \in 1..Len(prediagnosticos) :
          prediagnosticos[i].estado \in {"procesado", "Validado"} =>
            /\ IsClassLabel(prediagnosticos[i].resultado_modelo.etiqueta)
            /\ prediagnosticos[i].fecha_procesamiento # IntVal(0))
  /\ [][\A i \in 1..Len(prediagnosticos) :
          (prediagnosticos[i].estado = "pendiente" /\
           prediagnosticos'[i].estado = "procesado") =>
            /\ prediagnosticos'[i].resultado_modelo # prediagnosticos[i].resultado_modelo
            /\ prediagnosticos'[i].fecha_procesamiento = utcnow]_vars

C28_Witness ==
  /\ \E s \in Slots : reqs[s].pc = "ai"
  /\ \E s \in Slots : reqs[s].pc = "update"
  /\ \E i \in 1..Len(prediagnosticos) :
       /\ prediagnosticos[i].estado = "procesado"
       /\ IsClassLabel(prediagnosticos[i].resultado_modelo.etiqueta)
       /\ prediagnosticos[i].fecha_procesamiento = utcnow

(* C29: whenever the latest answer is a successful process_image response  *)
(* carrying a prediagnostico_id, the case with that id is stored and its   *)
(* estado is procesado or Validado; and a stored case is never removed nor *)
(* put back to pendiente, so an id once returned never names a pending case *)
C29_ReturnedIdIsProcessed ==
  /\ []((last.op = "process_image" /\ last.status = HTTP_200_OK) =>
          /\ Exists(last.body.prediagnostico_id)
          /\ Case(last.body.prediagnostico_id).estado \in {"procesado", "Validado"})
  /\ [][/\ Len(prediagnosticos') >= Len(prediagnosticos)
        /\ \A i \in 1..Len(prediagnosticos) :
             /\ prediagnosticos'[i].prediagnostico_id = prediagnosticos[i].prediagnostico_id
             /\ prediagnosticos'[i].estado = "pendiente" =>
                  prediagnosticos[i].estado = "pendiente"]_vars

C29_Witness ==
  /\ last.op = "process_image"
  /\ last.status = HTTP_200_OK
  /\ Case(last.body.prediagnostico_id).estado = "procesado"
  /\ \E i \in 1..Len(prediagnosticos) : prediagnosticos[i].estado = "pendiente"

(* C30: save_diagnostic stores the review before it moves the case, so     *)
(* while a request stands between the two writes and the case is still     *)
(* procesado, get_processed_cases answers 200 with a list that contains    *)
(* the case although a review of it is already stored                      *)
C30_QueueListsReviewedCase ==
  \A s \in Slots :
    (/\ reqs[s].pc = "update"
     /\ Case(reqs[s].prediagnostic_id).estado = "procesado") =>
       /\ Len(ReviewsOf(reqs[s].prediagnostic_id)) >= 1
       /\ get_processed_cases.status = HTTP_200_OK
       /\ \E i \in 1..Len(get_processed_cases.body) :
            get_processed_cases.body[i].id = reqs[s].prediagnostic_id

C30_Witness ==
  \E s \in Slots :
    /\ reqs[s].pc = "update"
    /\ Case(reqs[s].prediagnostic_id).estado = "procesado"
    /\ \E i \in 1..Len(diagnosticos) :
         diagnosticos[i] = reqs[s].diagnostic_document
    /\ \E i \in 1..Len(get_processed_cases.body) :
         /\ get_processed_cases.body[i].id = reqs[s].prediagnostic_id
         /\ get_processed_cases.body[i].estado = "procesado"

=============================================================================
